---- MODULE Spec2Model ----
(***************************************************************************)
(* Model of the conversational assistant widget of the storefront         *)
(* (frontend/src/components/Chatbot.tsx): the message timeline, the       *)
(* request pipeline of handleSendMessage, the email confirmation step,    *)
(* the voice capture / playback state and the product payload classifier. *)
(*                                                                         *)
(* Texts are sequences of tokens; the token " " is whitespace, so that    *)
(* String.prototype.trim is computed and not assumed.  Message.timestamp  *)
(* is display-only and is left out.  Every event handler runs to          *)
(* completion on the single event loop and is one action; the async       *)
(* handleSendMessage is two actions, split at its await.  A handler reads *)
(* the state of the render it was created in, which for a handler that is *)
(* invoked by a user event is the current state; the continuation after   *)
(* the await keeps reading the values captured when the call was made.    *)
(***************************************************************************)
EXTENDS Integers, Sequences, FiniteSets, TLC

VARIABLES
    userEmail,          \* user?.primaryEmailAddress?.emailAddress || ""
    localStorage,       \* email -> value stored under `email-confirmed-${email}`
    messages,           \* useState<Message[]>
    inputValue,         \* useState("") : the input buffer
    isTyping,           \* useState(false) : the in-flight flag
    emailConfirmed,     \* useState(false)
    voiceState,         \* useState<VoiceState>
    hasRecognition,     \* recognitionRef.current is not null
    hasSynth,           \* synthRef.current is not null
    recognition,        \* platform capture: "idle", "active", "ending"
    utterance,          \* the queue of speechSynthesis: utterances "pending" or "speaking"
    cancelledCallbacks, \* terminal callbacks owed by cancelled utterances
    inflight,           \* requests issued by fetch and not yet settled
    clsInput,           \* classifier study: the products list handed in
    clsOutput,          \* classifier study: what came back
    last                \* the handler that ran last, and what it was given

progVars == <<userEmail, localStorage, messages, inputValue, isTyping,
              emailConfirmed, voiceState, hasRecognition, hasSynth,
              recognition, utterance, cancelledCallbacks, inflight>>

clsVars == <<clsInput, clsOutput>>

vars == <<userEmail, localStorage, messages, inputValue, isTyping,
          emailConfirmed, voiceState, hasRecognition, hasSynth,
          recognition, utterance, cancelledCallbacks, inflight,
          clsInput, clsOutput, last>>

(***************************************************************************)
(* Bounds                                                                  *)
(***************************************************************************)
MaxMessages == 5

MaxInFlight == 2

MaxCancelled == 1

MaxProducts == 3

MaxQuickReply == 2

(***************************************************************************)
(* Texts                                                                   *)
(***************************************************************************)
Space == " "

GreetingText == <<"Hi! I'm your shopping assistant. How can I help you find the perfect product today?">>

PromptText == <<"Hi! I'm your shopping assistant. Before we start, I'd like to confirm your email address for a better experience.">>

ConfirmText == <<"Perfect! Your email has been confirmed. Now, how can I help you find the perfect product today?">>

FallbackText == <<"Sorry, I didn't understand that.">>

ApologyText == <<"Sorry, I'm having trouble right now. Please try again later.">>

UpdateEmailText == <<"I need to update my email address">>

GuestEmail == "guest@example.com"

AnswerText == <<"Here are some phones">>

RECURSIVE TrimStart(_)
TrimStart(s) ==
    IF s # <<>> /\ Head(s) = Space THEN TrimStart(Tail(s)) ELSE s

RECURSIVE TrimEnd(_)
TrimEnd(s) ==
    IF s # <<>> /\ s[Len(s)] = Space THEN TrimEnd(SubSeq(s, 1, Len(s) - 1)) ELSE s

Trim(s) == TrimEnd(TrimStart(s))

\* the values the user can type into the input field
InputTexts == {<<Space>>, <<Space, "hi">>}

\* the transcripts the platform can deliver
Transcripts == {<<Space, "hi">>}

Emails == {"", "a@x.com"}

EmailText(e) == IF e = "" THEN <<>> ELSE <<e>>

quickReplies ==
    << [display |-> "Electronics", query |-> <<"show me some phones">>],
       [display |-> "Show me deals", query |-> <<"what are the current deals and discounts available?">>],
       [display |-> "Return policy", query |-> <<"what is your return and refund policy?">>],
       [display |-> "Help me choose", query |-> <<"I need help choosing the right product for my needs">>],
       [display |-> "Shipping info", query |-> <<"what are the shipping options and delivery times?">>] >>

(***************************************************************************)
(* Messages                                                                *)
(***************************************************************************)
\* showEmailConfirm is "undefined" (key absent), "true" or "false"
Message(id, text, sender) ==
    [id |-> id, text |-> text, sender |-> sender, hasProducts |-> FALSE,
     products |-> <<>>, isComparison |-> FALSE, showEmailConfirm |-> "undefined"]

Truthy(flag) == flag = "true"

HasPending(msgs) == \E i \in 1..Len(msgs) : Truthy(msgs[i].showEmailConfirm)

(***************************************************************************)
(* IdentityGate: the persisted confirmation flag                           *)
(***************************************************************************)
StorageNull == "null"

getItem(store, email) == store[email]

\* a write that flips the entry instead of setting it
setItemToggled(store, email) ==
    [store EXCEPT ![email] = IF store[email] = "true" THEN StorageNull ELSE "true"]

\* localStorage.setItem(`email-confirmed-${email}`, "true")
setItem(store, email) == [store EXCEPT ![email] = "true"]

IsConfirmed(store, email) == getItem(store, email) = "true"

\* the flag read as set unless the stored value says false
LoadConfirmedNotFalse(store, email) == getItem(store, email) # "false"

\* setEmailConfirmed(confirmed === "true")
LoadConfirmed(store, email) == getItem(store, email) = "true"

\* the seed with the ids counted from zero
InitialMessagesFromZero(store, email) ==
    IF email # "" /\ getItem(store, email) = StorageNull
    THEN << [Message(0, PromptText, "bot") EXCEPT !.showEmailConfirm = "true"] >>
    ELSE << Message(0, GreetingText, "bot") >>

\* the seed without the check that there is an email
InitialMessagesAnyEmail(store, email) ==
    IF getItem(store, email) = StorageNull
    THEN << [Message(1, PromptText, "bot") EXCEPT !.showEmailConfirm = "true"] >>
    ELSE << Message(1, GreetingText, "bot") >>

\* the useEffect on [userName, userEmail]
InitialMessages(store, email) ==
    IF email # "" /\ getItem(store, email) = StorageNull
    THEN << [Message(1, PromptText, "bot") EXCEPT !.showEmailConfirm = "true"] >>
    ELSE << Message(1, GreetingText, "bot") >>

(***************************************************************************)
(* ProductPayloadClassifier                                                *)
(***************************************************************************)
ProductKeys == {"name", "price", "rating"}

\* a product is a JSON value: an object with some keys, or not an object
FullProduct == [isObject |-> TRUE, keys |-> {"name", "price", "rating"}]

PartialProduct == [isObject |-> TRUE, keys |-> {"name", "price"}]

BadProduct == [isObject |-> FALSE, keys |-> {}]

\* `"k" in product` raises a TypeError when product is not an object
InThrows(product) == ~product.isObject

RECURSIVE Every(_, _)
\* Array.prototype.every with the callback of isComparisonData, left to right:
\* "throws" at the first entry that is not an object, "false" at the first
\* object that lacks a key
Every(products, i) ==
    IF i > Len(products) THEN "true"
    ELSE IF InThrows(products[i]) THEN "throws"
    ELSE IF ~({"price", "rating", "name"} \subseteq products[i].keys) THEN "false"
    ELSE Every(products, i + 1)

\* the length check off by one
isComparisonDataFromOne(products) ==
    IF Len(products) < 1 THEN "false" ELSE Every(products, 1)

isComparisonData(products) ==
    IF Len(products) < 2 THEN "false" ELSE Every(products, 1)


\* the payload built from a copy of the user message
ProductPayloadFromUser(messagesLength, products) ==
    [id |-> messagesLength + 3, text |-> <<>>, sender |-> "user", hasProducts |-> TRUE,
     products |-> products, isComparison |-> (isComparisonData(products) = "true"),
     showEmailConfirm |-> "undefined"]

\* the message built at "Product payload" in handleSendMessage
ProductPayload(messagesLength, products) ==
    [id |-> messagesLength + 3, text |-> <<>>, sender |-> "bot", hasProducts |-> TRUE,
     products |-> products, isComparison |-> (isComparisonData(products) = "true"),
     showEmailConfirm |-> "undefined"]

(***************************************************************************)
(* Responses of the inference backend: the value response.json() yields    *)
(***************************************************************************)
Data(isObject, hasAnswer, isArray, products) ==
    [isObject |-> isObject, hasAnswer |-> hasAnswer,
     answer |-> IF hasAnswer THEN AnswerText ELSE <<>>,
     isArray |-> isArray, products |-> products]

NoData == Data(FALSE, FALSE, FALSE, <<>>)

Responses ==
    { Data(TRUE, TRUE, FALSE, <<>>),                               \* {answer}
      Data(TRUE, FALSE, FALSE, <<>>),                              \* {}
      Data(TRUE, TRUE, TRUE, <<>>),                                \* {answer, products: []}
      Data(TRUE, TRUE, TRUE, <<FullProduct>>),
      Data(TRUE, TRUE, TRUE, <<FullProduct, FullProduct>>),
      Data(TRUE, TRUE, TRUE, <<FullProduct, PartialProduct>>),
      Data(TRUE, TRUE, TRUE, <<FullProduct, BadProduct>>),         \* products: [{...}, null]
      Data(TRUE, FALSE, FALSE, <<FullProduct>>),                   \* {products: {"0": {...}, length: 1}}
      NoData }                                                     \* the JSON text `null`

(***************************************************************************)
(* History: which handler ran last                                         *)
(***************************************************************************)
\* The conversation handler that ran last (voice handlers leave it alone).
\* op: the handler; len: messages.length when it was called; messagesLength:
\* the length captured by the turn a response or failure belongs to; threw:
\* an exception left the handler; data: the response handled
Last(op, len) ==
    [op |-> op, len |-> len, messagesLength |-> 0, threw |-> FALSE, data |-> NoData]

(***************************************************************************)
(* Initial state: after the mount effects (voice setup, email management)  *)
(***************************************************************************)
InitialVoiceState(rec, synth) ==
    [isListening |-> FALSE, isSupported |-> (rec /\ synth),
     isSpeaking |-> FALSE, voiceEnabled |-> TRUE]

Mounted(email, store) ==
    /\ userEmail = email
    /\ localStorage = store
    /\ messages = InitialMessages(store, email)
    /\ inputValue = <<>>
    /\ isTyping = FALSE
    /\ emailConfirmed = LoadConfirmed(store, email)
    /\ recognition = "idle"
    /\ utterance = <<>>
    /\ cancelledCallbacks = 0
    /\ inflight = {}

\* the classifier study before the classifier has run
NotClassified == [done |-> FALSE, result |-> "false", payload |-> ProductPayload(0, <<>>)]

Init ==
    /\ \E email \in Emails : Mounted(email, [e \in Emails |-> StorageNull])
    /\ hasRecognition \in BOOLEAN
    /\ hasSynth \in BOOLEAN
    /\ voiceState = InitialVoiceState(hasRecognition, hasSynth)
    /\ clsInput = <<>>
    /\ clsOutput = NotClassified
    /\ last = Last("init", 0)


(***************************************************************************)
(* VoiceController: playback                                               *)
(***************************************************************************)
\* speakText without its call of cancel(): the queue is kept
CancelQueueKept(queue) == queue

\* synthRef.current.cancel(): every utterance is removed from the queue
CancelQueue(queue) == <<>>

\* an utterance that cancel() dropped owes its terminal callback (onend or onerror)
AfterCancel ==
    IF Len(CancelQueue(utterance)) = Len(utterance) THEN cancelledCallbacks
    ELSE IF cancelledCallbacks < MaxCancelled THEN cancelledCallbacks + 1
    ELSE MaxCancelled

\* the guard of speakText, on the voiceState of the closure that calls it
Speaks(voiceEnabled, isSpeaking) == hasSynth /\ voiceEnabled /\ ~isSpeaking

\* speakText(text) called from a closure that holds the given voiceState
speakText(voiceEnabled, isSpeaking) ==
    IF Speaks(voiceEnabled, isSpeaking)
    THEN /\ cancelledCallbacks' = AfterCancel
         /\ utterance' = Append(CancelQueue(utterance), "pending")
    ELSE UNCHANGED <<utterance, cancelledCallbacks>>

(***************************************************************************)
(* ConversationController: handleSendMessage up to its await               *)
(***************************************************************************)
\* messages the model still has room for, keeping one for every turn in flight
Room == MaxMessages - Len(messages) - Cardinality(inflight)

\* the two operands of || swapped
TextToSendInputFirst(messageText) == IF inputValue # <<>> THEN inputValue ELSE messageText

TextToSend(messageText) == IF messageText # <<>> THEN messageText ELSE inputValue

\* the empty guard without the trim
AcceptsUntrimmed(textToSend) == textToSend # <<>>

\* the guard that also turns the call down while narration plays
AcceptsWhenSilent(textToSend) == Trim(textToSend) # <<>> /\ ~voiceState.isSpeaking

\* the empty guard of handleSendMessage
Accepts(textToSend) == Trim(textToSend) # <<>>

\* the request that sends the address whether or not it is confirmed
RequestUnconfirmedEmail(textToSend) ==
    [messagesLength |-> Len(messages),
     question |-> textToSend,
     email |-> userEmail,
     voiceEnabled |-> voiceState.voiceEnabled,
     isSpeaking |-> voiceState.isSpeaking]

\* what the continuation after the await reads from its closure
Request(textToSend) ==
    [messagesLength |-> Len(messages),
     question |-> textToSend,
     email |-> IF emailConfirmed THEN userEmail ELSE GuestEmail,
     voiceEnabled |-> voiceState.voiceEnabled,
     isSpeaking |-> voiceState.isSpeaking]

handleSendMessage(messageText, op) ==
    LET textToSend == TextToSend(messageText) IN
    /\ last' = Last(op, Len(messages))
    /\ IF ~Accepts(textToSend)
       THEN UNCHANGED <<messages, inputValue, isTyping, inflight>>
       ELSE /\ Room >= 2
            /\ Cardinality(inflight) < MaxInFlight
            /\ messages' = Append(messages, Message(Len(messages) + 1, textToSend, "user"))
            /\ inputValue' = <<>>
            /\ isTyping' = TRUE
            /\ inflight' = inflight \cup {Request(textToSend)}
    /\ UNCHANGED <<userEmail, localStorage, emailConfirmed, voiceState, hasRecognition,
                   hasSynth, recognition, utterance, cancelledCallbacks, clsInput, clsOutput>>

\* the input field is disabled while a request is in flight or capture is active
InputEnabled == ~(isTyping \/ voiceState.isListening)

\* onChange of the input field
TypeInput(text) ==
    /\ InputEnabled
    /\ inputValue' = text
    /\ last' = Last("typeInput", Len(messages))
    /\ UNCHANGED <<userEmail, localStorage, messages, isTyping, emailConfirmed, voiceState,
                   hasRecognition, hasSynth, recognition, utterance, cancelledCallbacks,
                   inflight, clsInput, clsOutput>>

\* the send button: disabled={!inputValue.trim() || isTyping || voiceState.isListening}
SendButton ==
    /\ Trim(inputValue) # <<>>
    /\ ~isTyping
    /\ ~voiceState.isListening
    /\ handleSendMessage(<<>>, "sendButton")

\* handleKeyPress with Enter, on the enabled input field
EnterKey ==
    /\ InputEnabled
    /\ handleSendMessage(<<>>, "enterKey")

\* the render condition without the check of the email confirmation
QuickRepliesShownAnyFirst == Len(messages) = 1

\* messages.length === 1 && !messages[0].showEmailConfirm
QuickRepliesShown == Len(messages) = 1 /\ ~Truthy(messages[1].showEmailConfirm)

handleQuickReply(i) ==
    /\ QuickRepliesShown
    /\ handleSendMessage(quickReplies[i].query, "quickReply")

\* the "No, update it" button of the message that shows the email confirmation
RejectEmail ==
    /\ HasPending(messages)
    /\ handleSendMessage(UpdateEmailText, "rejectEmail")

\* the email quick action, rendered when emailConfirmed
sendEmailToBot ==
    /\ emailConfirmed
    /\ handleSendMessage(EmailText(userEmail), "sendEmailToBot")


(***************************************************************************)
(* ConversationController: handleSendMessage after its await               *)
(***************************************************************************)
\* data.answer ?? "Sorry, I didn't understand that."
BotText(data) == IF data.hasAnswer THEN data.answer ELSE FallbackText

\* the test of the length without Array.isArray
HasProductsAnyLength(data) == Len(data.products) > 0

\* Array.isArray(data.products) && data.products.length > 0
HasProducts(data) == data.isArray /\ Len(data.products) > 0

\* reading data.answer of a value that is not an object raises a TypeError
AnswerThrows(data) == ~data.isObject

\* the classifier raises while the product payload is built
PayloadThrows(data) ==
    data.isObject /\ HasProducts(data) /\ isComparisonData(data.products) = "throws"

\* the two messages appended the other way round
AppendedProductsFirst(req, data) ==
    LET botMessage == Message(req.messagesLength + 2, BotText(data), "bot") IN
    IF HasProducts(data)
    THEN <<ProductPayload(req.messagesLength, data.products), botMessage>>
    ELSE <<botMessage>>

\* the product payload appended in place of the bot text
AppendedProductsOnly(req, data) ==
    LET botMessage == Message(req.messagesLength + 2, BotText(data), "bot") IN
    IF HasProducts(data)
    THEN <<ProductPayload(req.messagesLength, data.products)>>
    ELSE <<botMessage>>

\* the messages the try block appends: the bot text, then the product payload
Appended(req, data) ==
    LET botMessage == Message(req.messagesLength + 2, BotText(data), "bot") IN
    IF HasProducts(data)
    THEN <<botMessage, ProductPayload(req.messagesLength, data.products)>>
    ELSE <<botMessage>>

\* the catch block reusing the text of the missing answer
errorMessageFallbackText(req) == Message(req.messagesLength + 2, FallbackText, "bot")

\* the catch block asking for the confirmation again with its apology
errorMessagePrompting(req) ==
    [Message(req.messagesLength + 2, ApologyText, "bot") EXCEPT !.showEmailConfirm = "true"]

\* the message the catch block appends
errorMessage(req) == Message(req.messagesLength + 2, ApologyText, "bot")

\* the catch block: an exception of the try block is logged, never rethrown
Propagates(threw) == FALSE

\* the finally block without the finally: the flag is cleared at the end of
\* the try block only
FinallyOnSuccessOnly(threw) == IF threw THEN isTyping ELSE FALSE

\* the finally block: setIsTyping(false), whether or not the try block threw
Finally(threw) == FALSE

\* a response arrived and response.json() parsed it to data
Response(req, data) ==
    /\ req \in inflight
    /\ inflight' = inflight \ {req}
    /\ IF AnswerThrows(data)
       THEN /\ messages' = Append(messages, errorMessage(req))
            /\ UNCHANGED <<utterance, cancelledCallbacks>>
       ELSE /\ IF req.voiceEnabled
               THEN speakText(req.voiceEnabled, req.isSpeaking)
               ELSE UNCHANGED <<utterance, cancelledCallbacks>>
            /\ IF PayloadThrows(data)
               THEN messages' = Append(messages, errorMessage(req))
               ELSE /\ Len(Appended(req, data)) <= Room + 1
                    /\ messages' = messages \o Appended(req, data)
    /\ isTyping' = Finally(AnswerThrows(data) \/ PayloadThrows(data))
    /\ last' = [Last("response", Len(messages)) EXCEPT
                   !.messagesLength = req.messagesLength, !.data = data,
                   !.threw = Propagates(AnswerThrows(data) \/ PayloadThrows(data))]
    /\ UNCHANGED <<userEmail, localStorage, inputValue, emailConfirmed, voiceState,
                   hasRecognition, hasSynth, recognition, clsInput, clsOutput>>

\* fetch rejected, or response.json() rejected
Failure(req) ==
    /\ req \in inflight
    /\ inflight' = inflight \ {req}
    /\ messages' = Append(messages, errorMessage(req))
    /\ isTyping' = Finally(TRUE)
    /\ last' = [Last("failure", Len(messages)) EXCEPT
                   !.messagesLength = req.messagesLength, !.threw = Propagates(TRUE)]
    /\ UNCHANGED <<userEmail, localStorage, inputValue, emailConfirmed, voiceState,
                   hasRecognition, hasSynth, recognition, utterance, cancelledCallbacks,
                   clsInput, clsOutput>>

(***************************************************************************)
(* Email confirmation                                                      *)
(***************************************************************************)
\* the map left out: the prompt keeps its flag
ClearPendingNone(prev) == prev

\* a filter in place of the map: the prompt is removed
ClearPendingFiltered(prev) == SelectSeq(prev, LAMBDA msg : ~Truthy(msg.showEmailConfirm))

\* the map with its two branches swapped
ClearPendingInverted(prev) ==
    [i \in 1..Len(prev) |->
        IF Truthy(prev[i].showEmailConfirm)
        THEN prev[i]
        ELSE [prev[i] EXCEPT !.showEmailConfirm = "true"]]

\* the map without the spread: the copy loses the text of the prompt
ClearPendingNoSpread(prev) ==
    [i \in 1..Len(prev) |->
        IF Truthy(prev[i].showEmailConfirm)
        THEN [prev[i] EXCEPT !.showEmailConfirm = "false", !.text = <<>>]
        ELSE prev[i]]

\* prev.map((msg) => (msg.showEmailConfirm ? { ...msg, showEmailConfirm: false } : msg))
ClearPending(prev) ==
    [i \in 1..Len(prev) |->
        IF Truthy(prev[i].showEmailConfirm)
        THEN [prev[i] EXCEPT !.showEmailConfirm = "false"]
        ELSE prev[i]]

\* the body of confirmEmail: it reads no condition before it writes
confirmEmailHandler ==
    LET confirmMessage == Message(Len(messages) + 1, ConfirmText, "bot") IN
    /\ Room >= 1
    /\ localStorage' = setItem(localStorage, userEmail)
    /\ emailConfirmed' = TRUE
    /\ messages' = ClearPending(messages) \o <<confirmMessage>>
    /\ IF voiceState.voiceEnabled
       THEN speakText(voiceState.voiceEnabled, voiceState.isSpeaking)
       ELSE UNCHANGED <<utterance, cancelledCallbacks>>
    /\ last' = Last("confirmEmail", Len(messages))
    /\ UNCHANGED <<userEmail, inputValue, isTyping, voiceState, hasRecognition, hasSynth,
                   recognition, inflight, clsInput, clsOutput>>

\* the "Yes, confirm" button of the message that shows the email confirmation
confirmEmail ==
    /\ HasPending(messages)
    /\ confirmEmailHandler


(***************************************************************************)
(* VoiceController: capture                                                *)
(***************************************************************************)
\* the voice input button is rendered when isSupported and disabled while isTyping
VoiceButtonEnabled == voiceState.isSupported /\ ~isTyping

\* recognition.start() raises InvalidStateError when capture has not ended yet
StartThrows == recognition # "idle"

\* the guard of startListening: recognitionRef.current && voiceState.isSupported
StartsCapture == hasRecognition /\ voiceState.isSupported

\* the body of startListening; it calls recognition.start() when its guard holds
startListeningHandler ==
    /\ IF StartsCapture
       THEN /\ voiceState' = [voiceState EXCEPT !.isListening = TRUE]
            /\ recognition' = IF StartThrows THEN recognition ELSE "active"
       ELSE UNCHANGED <<voiceState, recognition>>
    /\ UNCHANGED <<userEmail, localStorage, messages, inputValue, isTyping, emailConfirmed,
                   hasRecognition, hasSynth, utterance, cancelledCallbacks, inflight,
                   clsInput, clsOutput>>

\* the voice input button while not listening: onClick is startListening
startListening ==
    /\ VoiceButtonEnabled
    /\ ~voiceState.isListening
    /\ startListeningHandler
    /\ UNCHANGED last

\* a stop that also aborts the requests in flight
StopAbortsRequests(requests) == {}

\* stopListening holds no AbortController: the requests stay in flight
StopKeepsRequests(requests) == requests

\* recognition.stop() lets the platform deliver what it has, then end
stopListening ==
    /\ VoiceButtonEnabled
    /\ voiceState.isListening
    /\ IF hasRecognition
       THEN voiceState' = [voiceState EXCEPT !.isListening = FALSE]
       ELSE UNCHANGED voiceState
    /\ inflight' = StopKeepsRequests(inflight)
    /\ UNCHANGED last
    /\ UNCHANGED <<userEmail, localStorage, messages, inputValue, isTyping, emailConfirmed,
                   hasRecognition, hasSynth, recognition, utterance, cancelledCallbacks,
                   clsInput, clsOutput>>

\* the transcript added to what the buffer holds
setInputValueAppended(buffer, transcript) == buffer \o transcript

\* setInputValue(transcript): the buffer becomes the transcript
setInputValue(buffer, transcript) == transcript

\* recognitionRef.current.onresult
onresult(transcript) ==
    /\ recognition = "active"
    /\ recognition' = "ending"
    /\ inputValue' = setInputValue(inputValue, transcript)
    /\ voiceState' = [voiceState EXCEPT !.isListening = FALSE]
    /\ UNCHANGED last
    /\ UNCHANGED <<userEmail, localStorage, messages, isTyping, emailConfirmed,
                   hasRecognition, hasSynth, utterance, cancelledCallbacks, inflight,
                   clsInput, clsOutput>>

\* the error handler that only logs
CaptureIdleKept(prev) == prev

\* setVoiceState((prev) => ({ ...prev, isListening: false })) of onerror
CaptureIdle(prev) == [prev EXCEPT !.isListening = FALSE]

\* recognitionRef.current.onerror
onerror ==
    /\ recognition = "active"
    /\ recognition' = "ending"
    /\ voiceState' = CaptureIdle(voiceState)
    /\ UNCHANGED last
    /\ UNCHANGED <<userEmail, localStorage, messages, inputValue, isTyping, emailConfirmed,
                   hasRecognition, hasSynth, utterance, cancelledCallbacks, inflight,
                   clsInput, clsOutput>>

\* recognitionRef.current.onend
onend ==
    /\ recognition \in {"active", "ending"}
    /\ recognition' = "idle"
    /\ voiceState' = [voiceState EXCEPT !.isListening = FALSE]
    /\ UNCHANGED last
    /\ UNCHANGED <<userEmail, localStorage, messages, inputValue, isTyping, emailConfirmed,
                   hasRecognition, hasSynth, utterance, cancelledCallbacks, inflight,
                   clsInput, clsOutput>>

(***************************************************************************)
(* VoiceController: playback callbacks and the toggle                      *)
(***************************************************************************)
\* utterance.onstart
UtteranceStart ==
    /\ utterance # <<>>
    /\ Head(utterance) = "pending"
    /\ utterance' = <<"speaking">> \o Tail(utterance)
    /\ voiceState' = [voiceState EXCEPT !.isSpeaking = TRUE]
    /\ UNCHANGED last
    /\ UNCHANGED <<userEmail, localStorage, messages, inputValue, isTyping, emailConfirmed,
                   hasRecognition, hasSynth, recognition, cancelledCallbacks, inflight,
                   clsInput, clsOutput>>

\* utterance.onend
UtteranceEnd ==
    /\ utterance # <<>>
    /\ Head(utterance) = "speaking"
    /\ utterance' = Tail(utterance)
    /\ voiceState' = [voiceState EXCEPT !.isSpeaking = FALSE]
    /\ UNCHANGED last
    /\ UNCHANGED <<userEmail, localStorage, messages, inputValue, isTyping, emailConfirmed,
                   hasRecognition, hasSynth, recognition, cancelledCallbacks, inflight,
                   clsInput, clsOutput>>

\* utterance.onerror of the utterance at the head of the queue
UtteranceError ==
    /\ utterance # <<>>
    /\ utterance' = Tail(utterance)
    /\ voiceState' = [voiceState EXCEPT !.isSpeaking = FALSE]
    /\ UNCHANGED last
    /\ UNCHANGED <<userEmail, localStorage, messages, inputValue, isTyping, emailConfirmed,
                   hasRecognition, hasSynth, recognition, cancelledCallbacks, inflight,
                   clsInput, clsOutput>>

\* onend / onerror of an utterance that cancel() dropped
CancelledCallback ==
    /\ cancelledCallbacks > 0
    /\ cancelledCallbacks' = cancelledCallbacks - 1
    /\ voiceState' = [voiceState EXCEPT !.isSpeaking = FALSE]
    /\ UNCHANGED last
    /\ UNCHANGED <<userEmail, localStorage, messages, inputValue, isTyping, emailConfirmed,
                   hasRecognition, hasSynth, recognition, utterance, inflight,
                   clsInput, clsOutput>>

\* the toggle that can only switch voice off
ToggledEnabledOff(voiceEnabled) == FALSE

\* voiceEnabled: !prev.voiceEnabled
ToggledEnabled(voiceEnabled) == ~voiceEnabled

\* the body of toggleVoice: cancel() when speaking, then flip voiceEnabled;
\* isSpeaking is not written here, the callback of the cancelled utterance does
toggleVoiceHandler ==
    /\ IF voiceState.isSpeaking /\ hasSynth
       THEN /\ cancelledCallbacks' = AfterCancel
            /\ utterance' = CancelQueue(utterance)
       ELSE UNCHANGED <<utterance, cancelledCallbacks>>
    /\ voiceState' = [voiceState EXCEPT !.voiceEnabled = ToggledEnabled(voiceState.voiceEnabled)]
    /\ UNCHANGED last
    /\ UNCHANGED <<userEmail, localStorage, messages, inputValue, isTyping, emailConfirmed,
                   hasRecognition, hasSynth, recognition, inflight, clsInput, clsOutput>>

\* the voice toggle button of the header, rendered when isSupported
toggleVoice ==
    /\ voiceState.isSupported
    /\ toggleVoiceHandler

(***************************************************************************)
(* Page reload: component state is rebuilt, only localStorage survives     *)
(***************************************************************************)
\* a store that does not outlive the page
PersistedCleared(store) == [e \in DOMAIN store |-> StorageNull]

\* localStorage outlives the page: a reload finds what was written
Persisted(store) == store

Reload(email) ==
    /\ userEmail' = email
    /\ localStorage' = Persisted(localStorage)
    /\ UNCHANGED <<hasRecognition, hasSynth, clsInput, clsOutput>>
    /\ messages' = InitialMessages(localStorage, email)
    /\ inputValue' = <<>>
    /\ isTyping' = FALSE
    /\ emailConfirmed' = LoadConfirmed(localStorage, email)
    /\ voiceState' = InitialVoiceState(hasRecognition, hasSynth)
    /\ recognition' = "idle"
    /\ utterance' = <<>>
    /\ cancelledCallbacks' = 0
    /\ inflight' = {}
    /\ last' = Last("reload", 0)

Next ==
    \/ \E text \in InputTexts : TypeInput(text)
    \/ SendButton
    \/ EnterKey
    \/ \E i \in 1..MaxQuickReply : handleQuickReply(i)
    \/ RejectEmail
    \/ sendEmailToBot
    \/ \E req \in inflight, data \in Responses : Response(req, data)
    \/ \E req \in inflight : Failure(req)
    \/ confirmEmail
    \/ startListening
    \/ stopListening
    \/ \E transcript \in Transcripts : onresult(transcript)
    \/ onerror
    \/ onend
    \/ UtteranceStart
    \/ UtteranceEnd
    \/ UtteranceError
    \/ CancelledCallback
    \/ toggleVoice
    \/ \E email \in Emails : Reload(email)

Spec == Init /\ [][Next]_vars

(***************************************************************************)
(* The handlers called without the render conditions of their buttons      *)
(***************************************************************************)
\* confirmEmail() while no message shows the email confirmation
confirmEmailCall ==
    /\ ~HasPending(messages)
    /\ confirmEmailHandler

\* startListening() while listening, or without speech support
startListeningCall ==
    /\ voiceState.isListening \/ ~voiceState.isSupported
    /\ startListeningHandler
    /\ last' = [Last("startListening", Len(messages)) EXCEPT
                   !.threw = (StartsCapture /\ StartThrows)]

NextHandlers ==
    \/ Next
    \/ confirmEmailCall
    \/ startListeningCall

SpecHandlers == Init /\ [][NextHandlers]_vars

(***************************************************************************)
(* The identity of the user changing under the mounted component: the     *)
(* useEffect on [userName, userEmail] runs again and seeds the timeline,   *)
(* and every other piece of state, the requests in flight included, stays. *)
(* Spec follows the conversations of a page, which end with a reload; this *)
(* specification adds the change of identity without one, over the         *)
(* conversation handlers.                                                  *)
(***************************************************************************)
IdentityChanged(email) ==
    /\ userEmail' = email
    /\ emailConfirmed' = LoadConfirmed(localStorage, email)
    /\ messages' = InitialMessages(localStorage, email)
    /\ last' = Last("identityChanged", 0)
    /\ UNCHANGED <<localStorage, inputValue, isTyping, voiceState, hasRecognition, hasSynth,
                   recognition, utterance, cancelledCallbacks, inflight, clsInput, clsOutput>>

(***************************************************************************)
(* IdentityGate on its own: confirm called any number of times, and the   *)
(* read of the persisted flag at initialization and at a change of        *)
(* identity                                                                *)
(***************************************************************************)
NextIdentity ==
    \/ confirmEmail
    \/ confirmEmailCall
    \/ \E email \in Emails : Reload(email)
    \/ \E email \in Emails : IdentityChanged(email)

SpecIdentity == Init /\ [][NextIdentity]_vars

NextIdentityChange ==
    \/ \E email \in Emails : IdentityChanged(email)
    \/ \E email \in Emails : Reload(email)
    \/ \E text \in InputTexts : TypeInput(text)
    \/ SendButton
    \/ EnterKey
    \/ \E i \in 1..MaxQuickReply : handleQuickReply(i)
    \/ RejectEmail
    \/ sendEmailToBot
    \/ \E req \in inflight, data \in Responses : Response(req, data)
    \/ \E req \in inflight : Failure(req)
    \/ confirmEmail

SpecIdentityChange == Init /\ [][NextIdentityChange]_vars

(***************************************************************************)
(* The classifier on its own: every products list up to MaxProducts        *)
(***************************************************************************)
ProductValues == {[isObject |-> TRUE, keys |-> k] : k \in SUBSET ProductKeys} \cup {BadProduct}

ProductLists == UNION {[1..n -> ProductValues] : n \in 0..MaxProducts}

InitClassifier ==
    /\ Mounted("", [e \in Emails |-> StorageNull])
    /\ hasRecognition = FALSE
    /\ hasSynth = FALSE
    /\ voiceState = InitialVoiceState(FALSE, FALSE)
    /\ last = Last("init", 0)
    /\ clsInput \in ProductLists
    /\ clsOutput = NotClassified

\* isComparisonData(products), and the payload handleSendMessage builds from it
Classify ==
    /\ ~clsOutput.done
    /\ clsOutput' = [done |-> TRUE, result |-> isComparisonData(clsInput),
                     payload |-> ProductPayload(0, clsInput)]
    /\ UNCHANGED <<clsInput, last>>
    /\ UNCHANGED progVars

NextClassifier == Classify

SpecClassifier == InitClassifier /\ [][NextClassifier]_vars

TypeOK ==
    /\ userEmail \in Emails
    /\ isTyping \in BOOLEAN
    /\ emailConfirmed \in BOOLEAN
    /\ Len(messages) \in 1..MaxMessages
    /\ Cardinality(inflight) <= MaxInFlight
    /\ cancelledCallbacks \in 0..MaxCancelled
    /\ recognition \in {"idle", "active", "ending"}
    /\ \A i \in 1..Len(utterance) : utterance[i] \in {"pending", "speaking"}


(***************************************************************************)
(* Properties                                                              *)
(***************************************************************************)
\* a call of handleSendMessage through any of its entry points
SendCall ==
    \/ SendButton
    \/ EnterKey
    \/ \E i \in 1..MaxQuickReply : handleQuickReply(i)
    \/ RejectEmail
    \/ sendEmailToBot

\* the step settles the turn of req: its response is handled, or it failed
Settles(req) == Failure(req) \/ \E data \in Responses : Response(req, data)

PendingCount == Cardinality({i \in 1..Len(messages) : Truthy(messages[i].showEmailConfirm)})

\* every entry of the list is an object, as a Product is
AllObjects(products) == \A i \in 1..Len(products) : products[i].isObject

\* C1: turns are strictly serialized: a sendMessage call made while the
\* request of an earlier accepted call is in flight appends no message and
\* issues no request.
C1_TurnsSerialized ==
    [][(inflight # {} /\ SendCall) => (messages' = messages /\ inflight' = inflight)]_vars

\* C2: message ids are strictly increasing in timeline order under every
\* interleaving of sendMessage calls, their responses or failures, and
\* confirmEmail calls.
C2_IdsStrictlyIncreasing ==
    \A i, j \in 1..Len(messages) : i < j => messages[i].id < messages[j].id

\* C3: message ids are contiguous with insertion order: the message at
\* position k has id k.
C3_IdsContiguous ==
    \A k \in 1..Len(messages) : messages[k].id = k

\* C4: handling a response that carries an answer and a non-empty list of
\* products appends exactly two bot messages in one step, the text message
\* and right after it the product message with the higher id; with the user
\* message of the turn that makes three messages.
C4_TextThenProducts ==
    [][\A req \in inflight, data \in Responses :
          (/\ Response(req, data)
           /\ data.isObject /\ data.hasAnswer
           /\ HasProducts(data) /\ AllObjects(data.products))
          => LET n == Len(messages) IN
             /\ Len(messages') = n + 2
             /\ SubSeq(messages', 1, n) = messages
             /\ messages'[n + 1].sender = "bot"
             /\ messages'[n + 1].text = data.answer
             /\ ~messages'[n + 1].hasProducts
             /\ messages'[n + 2].sender = "bot"
             /\ messages'[n + 2].hasProducts
             /\ messages'[n + 2].products = data.products
             /\ messages'[n + 1].id < messages'[n + 2].id
             /\ \E k \in 1..n : /\ messages[k].sender = "user"
                                /\ messages[k].id = req.messagesLength + 1
                                /\ messages[k].text = req.question]_vars

C4_Witness ==
    /\ last.op = "response"
    /\ last.data.hasAnswer /\ HasProducts(last.data) /\ AllObjects(last.data.products)
    /\ Len(messages) = last.len + 2
    /\ messages[last.len + 2].hasProducts
    /\ messages[last.len + 2].isComparison

\* C5: the in-flight flag is cleared on every terminal path of a turn: after
\* a handled response, after a network or parse failure, and when handling
\* the response raises.
C5_FlagCleared ==
    [][\A req \in inflight : Settles(req) => ~isTyping']_vars

C5_Witness ==
    /\ last.op = "response"
    /\ PayloadThrows(last.data)
    /\ messages[Len(messages)].text = ApologyText
    /\ ~isTyping

\* C6: after confirmEmail on a timeline with a pending prompt no message is
\* pending and the email of the user is confirmed in the persisted state; from
\* a fresh unconfirmed identity the timeline then has exactly 2 messages.
C6_ConfirmClearsPending ==
    [][confirmEmail =>
          /\ ~HasPending(messages')
          /\ IsConfirmed(localStorage', userEmail')
          /\ (Len(messages) = 1 => Len(messages') = 2)]_vars

C6_Witness ==
    /\ last.op = "confirmEmail"
    /\ userEmail = "a@x.com"
    /\ Len(messages) = 2
    /\ messages[1].showEmailConfirm = "false"
    /\ messages[2].text = ConfirmText
    /\ IsConfirmed(localStorage, userEmail)

\* C7: in every reachable state at most one message has showEmailConfirm true.
C7_AtMostOnePending == PendingCount <= 1

C7_Witness ==
    /\ PendingCount = 1
    /\ Len(messages) > 2
    /\ inflight # {}

\* C8: isComparisonData is false for every single-element list; on a list of
\* objects it is true exactly when the list has at least two entries and every
\* entry has the keys name, price and rating; and the isComparison tag of the
\* product message built from the list is that result.
C8_Classifier ==
    clsOutput.done =>
        /\ (Len(clsInput) = 1 => clsOutput.result = "false")
        /\ (AllObjects(clsInput) =>
               ((clsOutput.result = "true") <=>
                   (/\ Len(clsInput) >= 2
                    /\ \A i \in 1..Len(clsInput) : ProductKeys \subseteq clsInput[i].keys)))
        /\ (AllObjects(clsInput) => clsOutput.result \in {"true", "false"})
        /\ (clsOutput.result # "throws" =>
               /\ clsOutput.payload.products = clsInput
               /\ clsOutput.payload.isComparison = (clsOutput.result = "true"))

C8_Witness ==
    /\ clsOutput.done
    /\ clsInput = <<FullProduct, FullProduct>>
    /\ clsOutput.result = "true"
    /\ clsOutput.payload.isComparison

\* C9: when the request of a turn fails or its response cannot be parsed,
\* exactly one bot message with the fixed apology text is appended, without
\* products, no further request is issued and no error leaves the handler.
C9_FailureFallback ==
    [][\A req \in inflight :
          Failure(req) =>
             LET n == Len(messages) IN
             /\ Len(messages') = n + 1
             /\ SubSeq(messages', 1, n) = messages
             /\ messages'[n + 1].sender = "bot"
             /\ messages'[n + 1].text = ApologyText
             /\ ~messages'[n + 1].hasProducts
             /\ inflight' = inflight \ {req}
             /\ ~last'.threw]_vars

C9_Witness ==
    /\ last.op = "failure"
    /\ Len(messages) = last.len + 1
    /\ messages[Len(messages)].text = ApologyText
    /\ messages[Len(messages)].sender = "bot"

\* the text a call through the Enter key or the email quick action resolves to
EmptyCall ==
    \/ EnterKey /\ Trim(TextToSend(<<>>)) = <<>>
    \/ sendEmailToBot /\ Trim(TextToSend(EmailText(userEmail))) = <<>>

\* C10: sendMessage with a text that is empty after trimming is a no-op: the
\* timeline, the input buffer, the in-flight flag, VoiceState, IdentityState
\* and the requests in flight are unchanged.
C10_EmptyIsNoOp ==
    [][EmptyCall => UNCHANGED progVars]_vars

C10_Witness ==
    /\ last.op = "enterKey"
    /\ inputValue = <<Space>>
    /\ last.len = Len(messages)
    /\ ~isTyping
    /\ inflight = {}


\* speakText is called: by confirmEmail, or while a response is handled
SpeakTextCalled ==
    \/ confirmEmail /\ voiceState.voiceEnabled
    \/ \E req \in inflight, data \in Responses :
          Response(req, data) /\ ~AnswerThrows(data) /\ req.voiceEnabled

\* speakText is called and its guard lets it speak
SpeakCall ==
    \/ confirmEmail /\ Speaks(voiceState.voiceEnabled, voiceState.isSpeaking)
    \/ \E req \in inflight, data \in Responses :
          Response(req, data) /\ ~AnswerThrows(data) /\ Speaks(req.voiceEnabled, req.isSpeaking)

\* C11: sendMessage invoked while voice capture is active, through any entry
\* point, is a no-op: no user message is appended and no request is issued.
C11_NoSendWhileListening ==
    [][(voiceState.isListening /\ SendCall)
          => (messages' = messages /\ inflight' = inflight)]_vars

\* C12: every request carries the address of the user when that address is
\* confirmed at the time the call is accepted and the guest placeholder
\* otherwise, and its question is the text of the user message the same call
\* appended.
C12_RequestEmail ==
    [][SendCall =>
          /\ Cardinality(inflight' \ inflight) <= 1
          /\ \A req \in inflight' \ inflight :
                /\ req.email = IF IsConfirmed(localStorage, userEmail)
                               THEN userEmail ELSE GuestEmail
                /\ Len(messages') = Len(messages) + 1
                /\ messages'[Len(messages')].sender = "user"
                /\ req.question = messages'[Len(messages')].text]_vars

C12_Witness ==
    /\ IsConfirmed(localStorage, userEmail)
    /\ \E req \in inflight : req.email = "a@x.com" /\ req.email = userEmail
    /\ last.op \in {"sendButton", "enterKey", "quickReply", "sendEmailToBot"}

\* C13: initialize seeds the timeline with exactly one bot message with id 1,
\* which shows the email confirmation if and only if the email is non-empty
\* and not confirmed in the persisted state, and is the plain greeting without
\* the flag otherwise.
C13_InitializeSeeds ==
    last.op \in {"init", "reload"} =>
        /\ Len(messages) = 1
        /\ messages[1].id = 1
        /\ messages[1].sender = "bot"
        /\ ~messages[1].hasProducts
        /\ (messages[1].showEmailConfirm = "true")
              <=> (userEmail # "" /\ ~IsConfirmed(localStorage, userEmail))
        /\ IF messages[1].showEmailConfirm = "true"
           THEN messages[1].text = PromptText
           ELSE messages[1].text = GreetingText /\ messages[1].showEmailConfirm = "undefined"

C13_Witness ==
    /\ last.op = "reload"
    /\ userEmail = "a@x.com"
    /\ IsConfirmed(localStorage, userEmail)
    /\ messages[1].showEmailConfirm = "undefined"

C15_ConfirmFrame ==
    [][confirmEmail =>
          LET n == Len(messages) IN
          /\ Len(messages') = n + 1
          /\ \A i \in 1..n :
                messages'[i] = IF Truthy(messages[i].showEmailConfirm)
                               THEN [messages[i] EXCEPT !.showEmailConfirm = "false"]
                               ELSE messages[i]
          /\ messages'[n + 1] = Message(n + 1, ConfirmText, "bot")
          /\ \A i \in 1..n : messages[i].id < messages'[n + 1].id]_vars

C15_Witness ==
    /\ last.op = "confirmEmail"
    /\ Len(messages) >= 3
    /\ messages[1].text = PromptText
    /\ messages[1].showEmailConfirm = "false"
    /\ messages[2].sender = "user"
    /\ messages[Len(messages)].text = ConfirmText

\* C16: the 'No, update it' action is a sendMessage call with the fixed text:
\* it appends the user message with that text and the next id, clears the
\* input, sets the in-flight flag and issues one request with that question,
\* and has no branch of its own: the prompt stays pending and the persisted
\* state is untouched.
C16_RejectIsSend ==
    [][RejectEmail =>
          LET n == Len(messages) IN
          /\ messages' = Append(messages, Message(n + 1, UpdateEmailText, "user"))
          /\ HasPending(messages')
          /\ inputValue' = <<>>
          /\ isTyping'
          /\ Cardinality(inflight' \ inflight) = 1
          /\ inflight \subseteq inflight'
          /\ \A req \in inflight' \ inflight :
                req.question = UpdateEmailText /\ req.messagesLength = n
          /\ UNCHANGED <<localStorage, emailConfirmed, voiceState, utterance,
                         cancelledCallbacks, recognition>>]_vars

C16_Witness ==
    /\ last.op = "rejectEmail"
    /\ messages[Len(messages)].text = UpdateEmailText
    /\ messages[Len(messages)].sender = "user"
    /\ HasPending(messages)
    /\ isTyping

\* C17: a speak call that comes before the start callback of the utterance of
\* an earlier call cancels that utterance: the queue never holds two
\* utterances and at most one utterance is speaking.
C17_OneUtterance ==
    [][/\ SpeakCall => utterance' = <<"pending">>
       /\ Len(utterance') <= 1]_vars

C17_Witness ==
    /\ utterance = <<"pending">>
    /\ cancelledCallbacks = 1
    /\ ~voiceState.isSpeaking
    /\ last.op \in {"response", "confirmEmail"}

\* C18: speak is a no-op when voice is disabled by the toggle or when speaking
\* is already true; otherwise it cancels what is queued and starts exactly one
\* utterance, speaking is true once it starts and false on completion or error.
C18_SpeakGuard ==
    [][/\ SpeakTextCalled =>
             IF ~voiceState.voiceEnabled \/ voiceState.isSpeaking
             THEN UNCHANGED <<utterance, cancelledCallbacks, voiceState>>
             ELSE hasSynth => utterance' = <<"pending">>
       /\ UtteranceStart => voiceState'.isSpeaking
       /\ (UtteranceEnd \/ UtteranceError) => ~voiceState'.isSpeaking]_vars

C20_BackToIdle ==
    [][/\ \A transcript \in Transcripts :
             onresult(transcript) =>
                /\ ~voiceState'.isListening
                /\ inputValue' = transcript
                /\ messages' = messages
       /\ onerror =>
             /\ ~voiceState'.isListening
             /\ UNCHANGED <<messages, inputValue, isTyping, inflight, last>>
       /\ stopListening =>
             /\ ~voiceState'.isListening
             /\ UNCHANGED <<messages, inputValue, isTyping, inflight, last>>]_vars

C20_Witness ==
    /\ last.op = "init"
    /\ recognition = "ending"
    /\ ~voiceState.isListening
    /\ inputValue \in Transcripts

\* C21 as stated: toggleVoice inverts the enabled flag on every call, and when
\* it turns voice off while speaking is true the utterance is cancelled and
\* speaking is false as soon as the call returns.
C21_ToggleStopsAtOnce ==
    [][toggleVoice =>
          /\ voiceState'.voiceEnabled = ~voiceState.voiceEnabled
          /\ (voiceState.voiceEnabled /\ voiceState.isSpeaking) =>
                (utterance' = <<>> /\ ~voiceState'.isSpeaking)]_vars

\* C21 amended: toggleVoice inverts the enabled flag on every call; when it
\* turns voice off while speaking is true the utterance is removed from the
\* queue in the same step and owes its terminal callback, the call itself
\* leaves speaking as it is, and that callback sets speaking to false without
\* the utterance having finished.
C21_ToggleCancels ==
    [][/\ toggleVoice =>
             /\ voiceState'.voiceEnabled = ~voiceState.voiceEnabled
             /\ voiceState'.isSpeaking = voiceState.isSpeaking
             /\ (voiceState.voiceEnabled /\ voiceState.isSpeaking) =>
                   (utterance' = <<>> /\ cancelledCallbacks' > 0)
       /\ CancelledCallback => (~voiceState'.isSpeaking /\ utterance' = utterance)]_vars

C21_Witness ==
    /\ ~voiceState.voiceEnabled
    /\ voiceState.isSpeaking
    /\ utterance = <<>>
    /\ cancelledCallbacks = 1
    /\ inflight = {}

\* C22: supported is what the startup check computed and never changes; while
\* supported is false no voice operation starts capture or playback: listening
\* and speaking are false, the platform captures nothing and no utterance is
\* queued.
C22_UnsupportedIsSilent ==
    /\ voiceState.isSupported = (hasRecognition /\ hasSynth)
    /\ ~voiceState.isSupported =>
          /\ ~voiceState.isListening
          /\ ~voiceState.isSpeaking
          /\ recognition = "idle"
          /\ utterance = <<>>

\* C23: quick replies are exposed if and only if the timeline has exactly one
\* message and that message does not show the email confirmation; selecting
\* entry i has the effect of sendMessage(query of i); and once the timeline
\* has a second message it keeps one until re-initialization, so they are
\* not exposed again.
C23_QuickReplies ==
    [][/\ \A i \in 1..MaxQuickReply :
             /\ (ENABLED handleQuickReply(i)) <=>
                    (Len(messages) = 1 /\ messages[1].showEmailConfirm # "true")
             /\ handleQuickReply(i) =>
                   /\ messages' = Append(messages, Message(2, quickReplies[i].query, "user"))
                   /\ inputValue' = <<>>
                   /\ isTyping'
                   /\ inflight' = {Request(quickReplies[i].query)}
       /\ (Len(messages) > 1 /\ ~(\E email \in Emails : Reload(email))) =>
             Len(messages') > 1]_vars

C23_Witness ==
    /\ Len(messages) >= 3
    /\ messages[1].text = GreetingText
    /\ messages[2].text = quickReplies[2].query
    /\ messages[2].sender = "user"
    /\ inflight = {}

\* C24: handling a response object whose answer is absent or null appends a
\* bot text message with the fixed fallback text; a response whose products
\* are absent, null, not a list or an empty list appends no product message:
\* exactly one bot message, the text message.
C24_Defaults ==
    [][\A req \in inflight, data \in Responses :
          (Response(req, data) /\ data.isObject) =>
             LET n == Len(messages) IN
             /\ (~data.hasAnswer /\ ~PayloadThrows(data)) =>
                   /\ messages'[n + 1].text = FallbackText
                   /\ messages'[n + 1].sender = "bot"
             /\ (~data.isArray \/ Len(data.products) = 0) =>
                   /\ Len(messages') = n + 1
                   /\ SubSeq(messages', 1, n) = messages
                   /\ messages'[n + 1].sender = "bot"
                   /\ ~messages'[n + 1].hasProducts
                   /\ messages'[n + 1].text = IF data.hasAnswer THEN data.answer
                                                ELSE FallbackText]_vars

C24_Witness ==
    /\ last.op = "response"
    /\ last.data = Data(TRUE, FALSE, FALSE, <<FullProduct>>)
    /\ Len(messages) = last.len + 1
    /\ messages[Len(messages)].text = FallbackText
    /\ ~messages[Len(messages)].hasProducts

\* C25: confirm is idempotent: after confirmEmail the address of the user is
\* confirmed in the persisted state, and a second confirmEmail leaves the
\* persisted state as the first left it; an address without a persisted entry
\* is read as not confirmed at initialization.
C25_ConfirmIdempotent ==
    [][/\ (confirmEmail \/ confirmEmailCall) =>
             /\ localStorage'[userEmail] = "true"
             /\ \A e \in Emails \ {userEmail} : localStorage'[e] = localStorage[e]
             /\ (localStorage[userEmail] = "true" => localStorage' = localStorage)
             /\ emailConfirmed'
       /\ \A email \in Emails :
             Reload(email) =>
                /\ (localStorage[email] = StorageNull => ~emailConfirmed')
                /\ (localStorage[email] = "true" => emailConfirmed')]_vars

C25_Witness ==
    /\ last.op = "confirmEmail"
    /\ Len(messages) >= 3
    /\ messages[2].text = ConfirmText
    /\ messages[3].text = ConfirmText
    /\ localStorage[userEmail] = "true"
    /\ \E e \in Emails : localStorage[e] = StorageNull

\* C26: confirmation is permanent and written only by confirm: an address
\* that is confirmed in the persisted state is confirmed in every later state,
\* across re-initialization and reload, and every step that changes the
\* persisted state is a confirmEmail step.
C26_ConfirmationPermanent ==
    [][/\ \A e \in Emails : localStorage[e] = "true" => localStorage'[e] = "true"
       /\ localStorage' # localStorage => confirmEmail]_vars

C26_Witness ==
    /\ last.op = "response"
    /\ userEmail = ""
    /\ localStorage["a@x.com"] = "true"
    /\ localStorage[""] = StorageNull
    /\ ~emailConfirmed

\* C27: the timeline is append-only: every step other than re-initialization
\* leaves the message list unchanged or extends it at the end; no message is
\* removed, reordered or replaced, and the only field of an existing message
\* that changes is showEmailConfirm, from true to false.
C27_AppendOnly ==
    [][(\A email \in Emails : ~Reload(email)) =>
          /\ Len(messages') >= Len(messages)
          /\ \A i \in 1..Len(messages) :
                \/ messages'[i] = messages[i]
                \/ /\ messages[i].showEmailConfirm = "true"
                   /\ messages'[i] = [messages[i] EXCEPT !.showEmailConfirm = "false"]]_vars

C27_Witness ==
    /\ Len(messages) >= 4
    /\ messages[1].text = PromptText
    /\ messages[1].showEmailConfirm = "false"
    /\ messages[Len(messages)].hasProducts

\* the bot text messages that answer a turn: neither a seed nor the confirmation
TurnReply(msg) ==
    /\ msg.sender = "bot"
    /\ ~msg.hasProducts
    /\ msg.text \notin {GreetingText, PromptText, ConfirmText}

\* C28: within one turn the user message precedes every bot message of the
\* turn, and the bot text message comes right before its product message,
\* with no message between the two, under every interleaving with
\* confirmEmail and voice events.  The messages of one turn carry the ids
\* length + 1, length + 2 and length + 3 of the length the call captured.
C28_TurnOrder ==
    \A i \in 1..Len(messages) :
        /\ messages[i].hasProducts =>
              /\ i > 1
              /\ TurnReply(messages[i - 1])
              /\ messages[i - 1].id + 1 = messages[i].id
        /\ TurnReply(messages[i]) =>
              \E k \in 1..(i - 1) : /\ messages[k].sender = "user"
                                     /\ messages[k].id + 1 = messages[i].id

C28_Witness ==
    /\ Len(messages) = 5
    /\ messages[2].sender = "user"
    /\ messages[3].text = ConfirmText
    /\ TurnReply(messages[4])
    /\ messages[5].hasProducts
    /\ voiceState.isSpeaking

UserMessage(msg) == msg.sender = "user"

\* how many user messages, and how many bot text messages of turns, a timeline has
UserCount(msgs) == Cardinality({i \in 1..Len(msgs) : UserMessage(msgs[i])})

ReplyCount(msgs) == Cardinality({i \in 1..Len(msgs) : TurnReply(msgs[i])})

\* C29: when the request of an accepted sendMessage settles, by a response or
\* by a failure, the turn appends exactly one bot text message, the reply or
\* the fixed apology, and the in-flight flag is then false; a turn never ends
\* with zero or with two bot text messages: the turns that are settled are
\* as many as the bot text messages of turns.
C29_OneReplyPerTurn ==
    /\ [](UserCount(messages)
             = ReplyCount(messages) + Cardinality(inflight))
    /\ [][\A req \in inflight :
             Settles(req) =>
                LET n == Len(messages) IN
                /\ SubSeq(messages', 1, n) = messages
                /\ ReplyCount(messages')
                      = ReplyCount(messages) + 1
                /\ TurnReply(messages'[n + 1])
                /\ messages'[n + 1].id = req.messagesLength + 2
                /\ messages'[n + 1].text \in {AnswerText, FallbackText, ApologyText}
                /\ (Failure(req) => messages'[n + 1].text = ApologyText)
                /\ ~isTyping'
                /\ inflight' = inflight \ {req}]_vars

C29_Witness ==
    /\ Len(messages) = 5
    /\ inflight = {}
    /\ ~isTyping
    /\ messages[3].text = ApologyText
    /\ messages[5].text = AnswerText
    /\ UserMessage(messages[2]) /\ UserMessage(messages[4])

\* C30: in every reachable VoiceState listening and speaking are never both
\* true, under every interleaving of startListening, capture callbacks, speak,
\* playback callbacks and toggleVoice.
C30_NotListeningAndSpeaking ==
    ~(voiceState.isListening /\ voiceState.isSpeaking)

\* C31: platform capture errors and platform playback errors never modify the
\* conversation: they return the affected state machine to Idle, append no
\* message and leave the timeline, the in-flight flag, the requests in flight
\* and IdentityState unchanged.
C31_VoiceErrorsFrame ==
    [][/\ onerror =>
             /\ ~voiceState'.isListening
             /\ voiceState'.isSpeaking = voiceState.isSpeaking
       /\ (UtteranceError \/ CancelledCallback) =>
             /\ ~voiceState'.isSpeaking
             /\ voiceState'.isListening = voiceState.isListening
       /\ (onerror \/ UtteranceError \/ CancelledCallback) =>
             UNCHANGED <<messages, isTyping, inflight, localStorage, emailConfirmed,
                         userEmail, inputValue, last>>]_vars

C31_Witness ==
    /\ Len(messages) = 1
    /\ recognition = "ending"
    /\ inputValue = <<>>
    /\ ~voiceState.isListening
    /\ last.op = "init"

\* C32: no message has both products and showEmailConfirm true; a message
\* that carries products is a bot message appended after the seed by the
\* handling of a response, with a list that is not empty and without the
\* showEmailConfirm key; the seed carries no products; isComparison is set
\* only on messages with products.
C32_ProductsApartFromPrompt ==
    \A i \in 1..Len(messages) :
        /\ messages[i].hasProducts =>
              /\ messages[i].sender = "bot"
              /\ messages[i].showEmailConfirm = "undefined"
              /\ messages[i].products # <<>>
              /\ i > 1
        /\ messages[i].showEmailConfirm \in {"true", "false"} =>
              (~messages[i].hasProducts /\ i = 1)
        /\ messages[i].isComparison => messages[i].hasProducts

C32_Witness ==
    /\ Len(messages) = 4
    /\ messages[1].showEmailConfirm = "true"
    /\ messages[4].hasProducts
    /\ messages[4].isComparison

\* C33: stopListening has no effect on an outstanding request or on its turn:
\* it changes only the capture state, and leaves the in-flight flag, the
\* timeline, the requests in flight and what their handling will read
\* unchanged.
C33_StopListeningFrame ==
    [][stopListening =>
          /\ voiceState' = [voiceState EXCEPT !.isListening = FALSE]
          /\ UNCHANGED <<messages, isTyping, inflight, inputValue, localStorage,
                         emailConfirmed, userEmail, utterance, cancelledCallbacks>>]_vars

C33_Witness ==
    /\ inflight # {}
    /\ recognition = "active"
    /\ ~voiceState.isListening

\* C34: narration and turn-taking are independent: a sendMessage call made
\* while speaking is true, with a text that is not blank, is accepted as any
\* other: the user message is appended, the request is in flight, and the
\* narration goes on.
C34_NarrationDoesNotBlock ==
    [][(voiceState.isSpeaking /\ SendCall /\ ~EmptyCall) =>
          /\ Len(messages') = Len(messages) + 1
          /\ UserMessage(messages'[Len(messages')])
          /\ Cardinality(inflight') = Cardinality(inflight) + 1
          /\ inflight \subseteq inflight'
          /\ isTyping'
          /\ UNCHANGED <<voiceState, utterance, cancelledCallbacks>>]_vars

C34_Witness ==
    /\ Len(messages) >= 4
    /\ messages[Len(messages) - 1].text = AnswerText
    /\ UserMessage(messages[Len(messages)])
    /\ last.op \in {"sendButton", "enterKey", "sendEmailToBot", "rejectEmail"}
    /\ inflight # {}
    /\ isTyping
    /\ voiceState.isSpeaking
    /\ utterance = <<"speaking">>

\* C35: a bot reply is narrated only if voice is enabled when its response is
\* handled: when voice is disabled at that moment, handling the response
\* starts no utterance and cancels none.
C35_NarrationReadsCurrentToggle ==
    [][\A req \in inflight, data \in Responses :
          (Response(req, data) /\ ~voiceState.voiceEnabled) =>
             UNCHANGED <<utterance, cancelledCallbacks>>]_vars

\* C36: the in-flight flag is true in every state in which a request issued
\* by sendMessage has not settled yet.
C36_FlagCoversRequests ==
    inflight # {} => isTyping

\* C37: a response or failure of a request issued before the timeline was
\* re-initialized for a changed identity is never appended to the timeline of
\* the new identity: until an operation of the new identity appends to it,
\* the timeline is the single seed message.
C37_StaleReplyDropped ==
    [][(last.op = "identityChanged" /\ \E req \in inflight : Settles(req)) =>
          messages' = messages]_vars

\* C38: the in-memory emailConfirmed flag equals the persisted confirmation of
\* the address of the current user in every reachable state: after
\* initialization, after the address changes and after confirmEmail.
C38_FlagMatchesStore ==
    emailConfirmed <=> (localStorage[userEmail] = "true")

C38_Witness ==
    /\ last.op = "identityChanged"
    /\ userEmail = ""
    /\ ~emailConfirmed
    /\ localStorage["a@x.com"] = "true"
    /\ localStorage[""] = StorageNull

\* (re-)initialization of the timeline: a reload, or a change of identity
Initializes == \E email \in Emails : Reload(email) \/ IdentityChanged(email)

\* C39: only confirmEmail clears the pending flag: a step that changes
\* showEmailConfirm on a message of the timeline, or appends a message that
\* has it, is a confirmEmail step or a re-initialization, so a sendMessage
\* call, the 'No, update it' action among them, and the handling of a
\* response or a failure never do; after rejectEmail the prompt is still
\* pending; and once no message is pending none becomes pending without a
\* re-initialization.
C39_OnlyConfirmClears ==
    [][/\ (\/ Len(messages') < Len(messages)
           \/ \E i \in 1..Len(messages) :
                 i <= Len(messages') /\ messages'[i].showEmailConfirm # messages[i].showEmailConfirm
           \/ \E i \in (Len(messages) + 1)..Len(messages') :
                 messages'[i].showEmailConfirm # "undefined")
             => (confirmEmail \/ Initializes)
       /\ RejectEmail => HasPending(messages')
       /\ (~HasPending(messages) /\ HasPending(messages')) => Initializes]_vars

C39_Witness ==
    /\ last.op = "response"
    /\ Len(messages) >= 3
    /\ messages[1].showEmailConfirm = "true"
    /\ messages[2].text = UpdateEmailText
    /\ TurnReply(messages[3])
    /\ inflight = {}

\* C40: after initialization the timeline is never empty and its first
\* message is the bot seed message with id 1; the user messages in the
\* timeline are as many as the sendMessage calls accepted since the last
\* initialization: an accepted call adds one, and every other step leaves
\* their number as it is, except an initialization, which leaves none.
C40_SeedAndUserCount ==
    /\ [](/\ messages # <<>>
           /\ messages[1].id = 1
           /\ messages[1].sender = "bot"
           /\ (messages[1].text = GreetingText \/ messages[1].text = PromptText))
    /\ [][IF SendCall /\ ~EmptyCall
           THEN UserCount(messages') = UserCount(messages) + 1
           ELSE \/ messages' = messages
                \/ UserCount(messages') = UserCount(messages)
                \/ UserCount(messages') = 0 /\ Initializes]_vars

C40_Witness ==
    /\ last.op = "response"
    /\ messages[1].id = 1
    /\ messages[1].text = GreetingText
    /\ UserCount(messages) = 2
    /\ Len(messages) = 4
    /\ inflight # {}

====
